---- MODULE Spec2Model ----
(***************************************************************************)
(* Model of the falcon package (atkamara/E-Commerce-Senegal):              *)
(*   - Con.py    : Redis / RedisUser cursors (key patterns, counters,      *)
(*                 pushes, telephone identity resolution)                  *)
(*   - Model.py  : Formatter.cast / format, Item.parse                     *)
(*   - Fields.py : the registered field classes                            *)
(*                                                                         *)
(* A store key 'a:b:c' is modelled as the sequence of its ':'-separated    *)
(* segments <<"a","b","c">>; this is exact as long as no segment contains  *)
(* a ':' (the case every claim is about).                                  *)
(***************************************************************************)
EXTENDS Integers, Sequences, FiniteSets, TLC

VARIABLES
    strs,       \* redis string keys written by SET:   key -> value
    counter,    \* redis integer keys written by INCR: key -> value
    hashes,     \* redis hash keys written by HSET:    key -> mapping
    pc,         \* per worker: position in the running call
    mode,       \* per worker: "tel_id" (bare call), "push" (RedisUser.push), "dpush" (Redis.push)
    cur,        \* per worker: the cursor object (self) of the running call
    contact,    \* per worker: the argument tel of tel_id (a contact string)
    tels,       \* per worker: local tels of tel_id
    parents,    \* per worker: local parents of tel_id (element [0] of every lookup)
    k,          \* per worker: loop index of the comprehension / the zip loop
    ret,        \* per worker: local tel of tel_id, its return value
    title,      \* per worker: piped['ProductTitle'] of the running push
    pattern,    \* per worker: local pattern of the running push
    seq,        \* per worker: the number INCR returned to the running push
    pre,        \* per worker: the string keys at the start of the running call (observation)
    touched,    \* per worker: the phones this worker has looked up so far (observation)
    together,   \* pairs of phones that were in the list of one finished call (observation)
    written,    \* the hash keys in the order HSET wrote them (observation)
    issued,     \* the (counter name, number) pairs in the order INCR returned them (observation)
    obs,        \* which of the observations pre / touched / together this run records
    fmt,        \* state of the Formatter / Item part (last call and its outcome)
    moved,      \* the (phone, parent) pairs update_tel_parent has moved a phone away from (observation)
    lastcall,   \* the last finished bare tel_id call: its argument, result and the pointers it left (observation)
    ix,         \* Page._ix of the page instance
    items,      \* Page.page_items: the records of the fragments of the page
    nxt,        \* Page.next: the next link of the page (None or a string)
    follow,     \* SiteSpider.follow
    iters,      \* per iteration over the page: what its next() calls gave, in order (observation)
    hpc,        \* position of the running SiteSpider.parse call
    hlog,       \* what SiteSpider.parse has done so far, in order (observation)
    db,         \* SiteSpider.db: the push target of the site
    flat        \* state of the flatten_dict part (input and results)

vars == <<strs, counter, hashes, pc, mode, cur, contact, tels, parents, k, ret,
          title, pattern, seq, pre, touched, together, written, issued, obs, fmt,
          moved, lastcall, ix, items, nxt, follow, iters, hpc, hlog, db, flat>>

\* the state of the page, the response handler and flatten_dict
pagevars == <<ix, items, nxt, follow, iters, hpc, hlog, db, flat>>

----------------------------------------------------------------------------
(* Bounds *)

NumTel == 3         \* number of distinct non-empty phone numbers
MaxTels == 3        \* longest contact list (number of ';'-separated entries)
MaxPush == 3        \* pushes (INCR calls) in one run

Workers == {1, 2}

Tel == {ToString(i) : i \in 1..NumTel}

----------------------------------------------------------------------------
(* Contact strings.  A contact string is modelled as a sequence of tokens: *)
(* whole phone numbers and the delimiter ";".  "" is <<>>.                 *)

Token == Tel \cup {";"}

ContactStrings ==
    {s \in UNION {[1..n -> Token] : n \in 0..(2 * MaxTels - 1)} :
        /\ \A i \in 1..(Len(s) - 1) : ~(s[i] \in Tel /\ s[i + 1] \in Tel)
        /\ Cardinality({i \in 1..Len(s) : s[i] = ";"}) < MaxTels}

\* str.split(';') on a contact string: never the empty list, '' gives ['']
RECURSIVE split(_)
split(s) ==
    IF s = <<>> THEN <<"">>
    ELSE IF Head(s) = ";" THEN <<"">> \o split(Tail(s))
    ELSE IF Len(s) = 1 THEN <<Head(s)>>
    ELSE <<Head(s)>> \o split(Tail(Tail(s)))

\* the contact strings the Contact field produces: phones joined by ';'
PhoneLists == {c \in ContactStrings : \A i \in 1..Len(split(c)) : split(c)[i] \in Tel}

----------------------------------------------------------------------------
(* The store (redis.Redis engine) *)

AllKeys == DOMAIN strs \cup DOMAIN counter \cup DOMAIN hashes

\* a mutation of Without: the key is not deleted
Without_kept(f, key) == f

\* engine.delete(key) on one key space: the function without that key
Without(f, key) == [x \in DOMAIN f \ {key} |-> f[x]]

\* the glob '*:{tel}' without the namespace prefix: any key ending in the phone
GlobIds_loose(key, root, tel) ==
    /\ Len(key) >= 4
    /\ key[Len(key)] = tel

\* engine.keys(pattern=f'{root}:Ids:*:{tel}'): glob match on whole keys
GlobIds(key, root, tel) ==
    /\ Len(key) >= 4
    /\ key[1] = root
    /\ key[2] = "Ids"
    /\ key[Len(key)] = tel

engine_keys(root, tel) == {key \in AllKeys : GlobIds(key, root, tel)}

----------------------------------------------------------------------------
(* Cursors (Redis.__init__): root, domain, category, partition *)

Roots == {"root"}
Domains == {"", "d1"}
Categories == {"", "c1"}
Partitions == {"", "p1"}
Titles == {"t1", "t2"}

Cursors == [root : Roots, domain : Domains, category : Categories, partition : Partitions]

\* The cursor of the bare tel_id calls: RedisUser(domain, category)
DefaultCursor == [root |-> "root", domain |-> "d1", category |-> "c1", partition |-> ""]

\* ':'.join(list) as a segment sequence: the join of nothing is the string ''
join(list) == IF list = <<>> THEN <<"">> ELSE list

\* Redis.pattern
Redis_pattern(self) ==
    join(SelectSeq(<<self.root, self.domain, self.category, self.partition>>,
                   LAMBDA folder : folder # ""))

\* RedisUser.users_pattern
users_pattern(self, tel) ==
    join(<<self.root, "Users", tel, "Domains", self.domain, "Categories", self.category>>)

\* parent_tel_pattern with the two phone segments exchanged
parent_tel_pattern_swapped(self, tel, parent) == <<self.root, "Ids", tel, parent>>

\* RedisUser.parent_tel_pattern
parent_tel_pattern(self, tel, parent) == <<self.root, "Ids", parent, tel>>

\* a mutation of ParentSegment: split(':')[3], the child segment
ParentSegment_child(key) == key[4]

\* pattern.split(':')[2]
ParentSegment(key) == key[3]

\* a mutation of CounterOfUser: the global counter of the default push
CounterOfUser_items(pat) == <<"items">>

\* the name of the counter a push increments
CounterOfDefault(self) == <<"items">>
CounterOfUser(pat) == pat

\* a mutation of incr_value: the counter stays at its first number
incr_value_stuck(old) == IF old = 0 THEN 1 ELSE old

\* what INCR stores and returns for a counter holding old (0 when the key is absent)
incr_value(old) == old + 1

\* the key a push writes: f'{pattern}:{incr}' and f'{pattern}:{title}:{incr}'
Redis_id(pat, n) == pat \o <<ToString(n)>>
RedisUser_id(pat, t, n) == pat \o <<t, ToString(n)>>

----------------------------------------------------------------------------
(* Store operations, as the new values of the three key spaces *)

SetStrs(key, val) == [x \in DOMAIN strs \cup {key} |-> IF x = key THEN val ELSE strs[x]]


----------------------------------------------------------------------------
(* RedisUser.tel_id, one action per store operation *)

Pairs(list) == {{list[i], list[j]} : i, j \in 1..Len(list)} \ {{list[i]} : i \in 1..Len(list)}

\* where a call continues when tel_id returns
AfterTelId(m) == IF m = "tel_id" THEN "done" ELSE "incr"

\* a mutation of FirstIsSet: if any(tels)
FirstIsSet_any(ts) == \E i \in 1..Len(ts) : ts[i] # ""

\* if tels[0]:
FirstIsSet(ts) == ts[1] # ""

\* tels = tel.split(';'); tel = 'Unknown'; if tels[0]: ...
\* (the entry of tel_id, shared by the bare call and by RedisUser.push)
TelIdEntry(w, m, self, c) ==
    LET ts == split(c) IN
    /\ tels' = [tels EXCEPT ![w] = ts]
    /\ contact' = [contact EXCEPT ![w] = c]
    /\ ret' = [ret EXCEPT ![w] = "Unknown"]
    /\ parents' = [parents EXCEPT ![w] = <<>>]
    /\ k' = [k EXCEPT ![w] = 1]
    /\ pre' = IF "pre" \in obs THEN [pre EXCEPT ![w] = strs] ELSE pre
    /\ IF FirstIsSet(ts)
         THEN /\ pc' = [pc EXCEPT ![w] = "keys"]
              /\ pattern' = [pattern EXCEPT ![w] = <<>>]
         ELSE /\ pc' = [pc EXCEPT ![w] = AfterTelId(m)]
              /\ pattern' = [pattern EXCEPT ![w] =
                                IF m = "push" THEN users_pattern(self, "Unknown") ELSE <<>>]

\* a bare call self.tel_id(c)
CallTelId(w, c) ==
    /\ pc[w] = "idle"
    /\ mode' = [mode EXCEPT ![w] = "tel_id"]
    /\ cur' = [cur EXCEPT ![w] = DefaultCursor]
    /\ TelIdEntry(w, "tel_id", DefaultCursor, c)
    /\ UNCHANGED <<strs, counter, hashes, title, seq, touched, together, written, issued, obs, fmt, moved, lastcall, pagevars>>

\* the end of the comprehension and of the zip loop: tel_id returns r
TelIdReturn(w, r) ==
    /\ pc' = [pc EXCEPT ![w] = AfterTelId(mode[w])]
    /\ pattern' = [pattern EXCEPT ![w] =
                      IF mode[w] = "push" THEN users_pattern(cur[w], r) ELSE <<>>]
    /\ together' = IF "together" \in obs THEN together \cup Pairs(tels[w]) ELSE together

\* one lookup of the comprehension has produced its list, whose [0] is key
Gathered(w, key) ==
    LET ps == Append(parents[w], key) IN
    IF k[w] < Len(tels[w])
      THEN /\ parents' = [parents EXCEPT ![w] = ps]
           /\ k' = [k EXCEPT ![w] = k[w] + 1]
           /\ pc' = [pc EXCEPT ![w] = "keys"]
           /\ UNCHANGED <<ret, pattern, together>>
      ELSE \* tel = parents.pop()[0].split(':')[2]
           LET canonical == ParentSegment(ps[Len(ps)])
               rest == SubSeq(ps, 1, Len(ps) - 1) IN
           /\ ret' = [ret EXCEPT ![w] = canonical]
           /\ parents' = [parents EXCEPT ![w] = rest]
           /\ k' = [k EXCEPT ![w] = 1]
           /\ IF rest = <<>>
                THEN TelIdReturn(w, canonical)
                ELSE /\ pc' = [pc EXCEPT ![w] = "delete"]
                     /\ UNCHANGED <<pattern, together>>

\* get_tel_parent: old = self.engine.keys(...); the order of KEYS is not defined,
\* so old[0] is any of the matching keys
Keys(w) ==
    /\ pc[w] = "keys"
    /\ LET tel == tels[w][k[w]]
           old == engine_keys(cur[w].root, tel) IN
       /\ touched' = IF "touched" \in obs THEN [touched EXCEPT ![w] = @ \cup {tel}] ELSE touched
       /\ IF old = {}
            THEN /\ pc' = [pc EXCEPT ![w] = "setself"]
                 /\ UNCHANGED <<parents, k, ret, pattern, together>>
            ELSE \E key \in old : Gathered(w, key)
    /\ UNCHANGED <<strs, counter, hashes, mode, cur, contact, tels, title, seq, pre,
                   written, issued, obs, fmt, moved, lastcall, pagevars>>

\* set_parent: self.engine.set(pattern, tel)
set_parent(self, tel, parent) ==
    LET key == parent_tel_pattern(self, tel, parent) IN
    /\ strs' = SetStrs(key, tel)
    /\ counter' = Without(counter, key)
    /\ hashes' = Without(hashes, key)

\* get_tel_parent: if not old: old = [self.set_parent(tel, tel)]
SetSelf(w) ==
    /\ pc[w] = "setself"
    /\ LET tel == tels[w][k[w]] IN
       /\ set_parent(cur[w], tel, tel)
       /\ Gathered(w, parent_tel_pattern(cur[w], tel, tel))
    /\ UNCHANGED <<mode, cur, contact, tels, title, seq, pre, touched, written, issued, obs, fmt, moved, lastcall, pagevars>>

\* update_tel_parent: self.engine.delete(old_parent[0])
Delete(w) ==
    /\ pc[w] = "delete"
    /\ LET key == parents[w][k[w]] IN
       /\ strs' = Without(strs, key)
       /\ counter' = Without(counter, key)
       /\ hashes' = Without(hashes, key)
    /\ pc' = [pc EXCEPT ![w] = "set"]
    /\ UNCHANGED <<mode, cur, contact, tels, parents, k, ret, title, pattern, seq, pre,
                   touched, together, written, issued, obs, fmt, moved, lastcall, pagevars>>

\* update_tel_parent: return self.set_parent(tel, parent)
Set(w) ==
    /\ pc[w] = "set"
    /\ set_parent(cur[w], tels[w][k[w]], ret[w])
    /\ IF k[w] < Len(parents[w])
         THEN /\ k' = [k EXCEPT ![w] = k[w] + 1]
              /\ pc' = [pc EXCEPT ![w] = "delete"]
              /\ UNCHANGED <<pattern, together>>
         ELSE /\ TelIdReturn(w, ret[w])
              /\ UNCHANGED k
    /\ moved' = IF "moved" \in obs /\ ParentSegment(parents[w][k[w]]) # ret[w]
                  THEN moved \cup {<<tels[w][k[w]], ParentSegment(parents[w][k[w]])>>}
                  ELSE moved
    /\ UNCHANGED <<mode, cur, contact, tels, parents, ret, title, seq, pre, touched,
                   written, issued, obs, fmt, lastcall, pagevars>>

\* the caller of a bare tel_id has its result; the worker is free again
Return(w) ==
    /\ pc[w] = "done"
    /\ pc' = [pc EXCEPT ![w] = "idle"]
    /\ contact' = [contact EXCEPT ![w] = <<>>]
    /\ tels' = [tels EXCEPT ![w] = <<>>]
    /\ parents' = [parents EXCEPT ![w] = <<>>]
    /\ k' = [k EXCEPT ![w] = 1]
    /\ ret' = [ret EXCEPT ![w] = "Unknown"]
    /\ pre' = [pre EXCEPT ![w] = <<>>]
    /\ lastcall' = IF "lastcall" \in obs
                     THEN [tel |-> contact[w], result |-> ret[w], strs |-> strs]
                     ELSE lastcall
    /\ UNCHANGED <<strs, counter, hashes, mode, cur, title, pattern, seq, touched, together,
                   written, issued, obs, fmt, moved, pagevars>>

----------------------------------------------------------------------------
(* Redis.push and RedisUser.push, one action per store operation *)

\* pushes begun so far: the numbers handed out and the pushes not yet at their INCR
Begun ==
    Len(issued) + Cardinality({w \in Workers : mode[w] \in {"push", "dpush"}
                                               /\ pc[w] \in {"keys", "setself", "delete", "set", "incr"}})

\* the flattened record of a push: piped = self.pipe(result)
Piped(c, t) == [Contact |-> c, ProductTitle |-> t]

\* Redis.push: self.id evaluates self.pattern, then self.incr
StartPushDefault(w, self, c, t) ==
    /\ pc[w] = "idle"
    /\ Begun < MaxPush
    /\ mode' = [mode EXCEPT ![w] = "dpush"]
    /\ cur' = [cur EXCEPT ![w] = self]
    /\ contact' = [contact EXCEPT ![w] = c]
    /\ title' = [title EXCEPT ![w] = t]
    /\ pattern' = [pattern EXCEPT ![w] = Redis_pattern(self)]
    /\ pc' = [pc EXCEPT ![w] = "incr"]
    /\ UNCHANGED <<strs, counter, hashes, tels, parents, k, ret, seq, pre, touched,
                   together, written, issued, obs, fmt, moved, lastcall, pagevars>>

\* RedisUser.push: piped = self.pipe(result); tel_id = self.tel_id(piped['Contact'])
StartPushUser(w, self, c, t) ==
    /\ pc[w] = "idle"
    /\ Begun < MaxPush
    /\ mode' = [mode EXCEPT ![w] = "push"]
    /\ cur' = [cur EXCEPT ![w] = self]
    /\ title' = [title EXCEPT ![w] = t]
    /\ TelIdEntry(w, "push", self, c)
    /\ UNCHANGED <<strs, counter, hashes, seq, touched, together, written, issued, obs, fmt, moved, lastcall, pagevars>>

\* the counter of the running push
CounterName(w) ==
    IF mode[w] = "dpush" THEN CounterOfDefault(cur[w]) ELSE CounterOfUser(pattern[w])

\* self.engine.incr(name): atomic in the store
Incr(w) ==
    /\ pc[w] = "incr"
    /\ LET name == CounterName(w)
           old == IF name \in DOMAIN counter THEN counter[name] ELSE 0
           new == incr_value(old) IN
       /\ name \notin DOMAIN strs \cup DOMAIN hashes
       /\ counter' = [x \in DOMAIN counter \cup {name} |-> IF x = name THEN new ELSE counter[x]]
       /\ seq' = [seq EXCEPT ![w] = new]
       /\ issued' = Append(issued, <<name, new>>)
    /\ pc' = [pc EXCEPT ![w] = "hset"]
    /\ UNCHANGED <<strs, hashes, mode, cur, contact, tels, parents, k, ret, title, pattern,
                   pre, touched, together, written, obs, fmt, moved, lastcall, pagevars>>

\* the key of the running push
PushKey(w) ==
    IF mode[w] = "dpush" THEN Redis_id(pattern[w], seq[w])
    ELSE RedisUser_id(pattern[w], title[w], seq[w])

\* self.engine.hset(id, mapping=piped); the push returns
Hset(w) ==
    /\ pc[w] = "hset"
    /\ LET key == PushKey(w) IN
       /\ key \notin DOMAIN strs \cup DOMAIN counter
       /\ hashes' = [x \in DOMAIN hashes \cup {key} |->
                        IF x = key THEN Piped(contact[w], title[w]) ELSE hashes[x]]
       /\ written' = Append(written, key)
    /\ pc' = [pc EXCEPT ![w] = "idle"]
    /\ mode' = [mode EXCEPT ![w] = "tel_id"]
    /\ cur' = [cur EXCEPT ![w] = DefaultCursor]
    /\ title' = [title EXCEPT ![w] = ""]
    /\ pattern' = [pattern EXCEPT ![w] = <<>>]
    /\ seq' = [seq EXCEPT ![w] = 0]
    /\ contact' = [contact EXCEPT ![w] = <<>>]
    /\ tels' = [tels EXCEPT ![w] = <<>>]
    /\ parents' = [parents EXCEPT ![w] = <<>>]
    /\ k' = [k EXCEPT ![w] = 1]
    /\ ret' = [ret EXCEPT ![w] = "Unknown"]
    /\ pre' = [pre EXCEPT ![w] = <<>>]
    /\ hpc' = IF hpc = "pushing" /\ w = 1 THEN "pushed" ELSE hpc
    /\ UNCHANGED <<strs, counter, touched, together, issued, obs, fmt, moved, lastcall,
                   ix, items, nxt, follow, iters, hlog, db, flat>>

----------------------------------------------------------------------------
(* Specification of the identity resolution of one worker *)

NoFmt == [op |-> "none"]

\* the page has no next link: response.xpath(...).get() is None
NoLink == "None"

\* the iterations over one page instance
Iterations == {1, 2}

\* Site.Db, the default push target: push returns its argument, no store is written
DefaultDb == [kind |-> "Db", cursor |-> DefaultCursor]

NoFlat == [op |-> "none"]

\* no bare tel_id call has finished yet
NoCall == [tel |-> <<>>, result |-> "Unknown", strs |-> <<>>]

\* a new store without counters and hashes, and no call running on it
InitRest ==
    /\ counter = <<>>
    /\ hashes = <<>>
    /\ pc = [w \in Workers |-> "idle"]
    /\ mode = [w \in Workers |-> "tel_id"]
    /\ cur = [w \in Workers |-> DefaultCursor]
    /\ contact = [w \in Workers |-> <<>>]
    /\ tels = [w \in Workers |-> <<>>]
    /\ parents = [w \in Workers |-> <<>>]
    /\ k = [w \in Workers |-> 1]
    /\ ret = [w \in Workers |-> "Unknown"]
    /\ title = [w \in Workers |-> ""]
    /\ pattern = [w \in Workers |-> <<>>]
    /\ seq = [w \in Workers |-> 0]
    /\ pre = [w \in Workers |-> <<>>]
    /\ touched = [w \in Workers |-> {}]
    /\ together = {}
    /\ written = <<>>
    /\ issued = <<>>
    /\ fmt = NoFmt
    /\ moved = {}
    /\ lastcall = NoCall
    /\ ix = 0
    /\ items = <<>>
    /\ nxt = NoLink
    /\ follow = TRUE
    /\ iters = [i \in Iterations |-> <<>>]
    /\ hpc = "idle"
    /\ hlog = <<>>
    /\ db = DefaultDb
    /\ flat = NoFlat

\* the empty store of a new server
InitStore == strs = <<>> /\ InitRest

Init == InitStore /\ obs = {}

\* the identity resolution with the store at the start of every call recorded
InitId == InitStore /\ obs = {"pre"}

TelIdStep(w) == Keys(w) \/ SetSelf(w) \/ Delete(w) \/ Set(w) \/ Return(w)

NextId == (\E c \in ContactStrings : CallTelId(1, c)) \/ TelIdStep(1)

SpecId == InitId /\ [][NextId]_vars

----------------------------------------------------------------------------
(* Identity pointers *)

AllPhones == Tel \cup {""}

\* the pointers root:Ids:<parent>:<tel> of a phone among the keys of f
PointersIn(f, tel) == {key \in DOMAIN f : GlobIds(key, "root", tel)}

AtMostOnePointer(f) == \A t \in AllPhones : Cardinality(PointersIn(f, t)) <= 1

PhonesOf(w) == {tels[w][i] : i \in 1..Len(tels[w])}

LastOf(w) == tels[w][Len(tels[w])]

\* a bare tel_id call of worker w has returned and its result is in ret[w]
Returned(w) == pc[w] = "done" /\ mode[w] = "tel_id"

----------------------------------------------------------------------------
(* C1..C4: identity resolution by one worker *)

\* C1: a tel_id call of one worker on a list of non-empty phones, started in a
\* store with at most one pointer per phone, returns the parent segment of the
\* pointer the last phone had before the call (the last phone itself, with a
\* self pointer created, if it had none); afterwards every phone of the list
\* has exactly one pointer, whose parent is the returned identity; the pointers
\* of the phones outside the list are as they were.
C1_ResolveIdentity ==
    \A w \in Workers :
        (Returned(w) /\ "" \notin PhonesOf(w) /\ AtMostOnePointer(pre[w])) =>
            LET before == PointersIn(pre[w], LastOf(w)) IN
            /\ ret[w] = IF before = {} THEN LastOf(w)
                        ELSE (CHOOSE key \in before : TRUE)[3]
            /\ before = {} => <<"root", "Ids", LastOf(w), LastOf(w)>> \in DOMAIN strs
            /\ \A t \in PhonesOf(w) : PointersIn(strs, t) = {<<"root", "Ids", ret[w], t>>}
            /\ \A t \in AllPhones \ PhonesOf(w) :
                   /\ PointersIn(strs, t) = PointersIn(pre[w], t)
                   /\ \A key \in PointersIn(strs, t) : strs[key] = pre[w][key]

\* C1 witness: a call on two or more non-empty phones has returned the parent
\* the last phone had before, which is not the last phone, and has re-parented
\* a phone that had another parent
C1_Witness ==
    /\ Returned(1)
    /\ Len(tels[1]) >= 2
    /\ "" \notin PhonesOf(1)
    /\ PointersIn(pre[1], LastOf(1)) # {}
    /\ ret[1] # LastOf(1)
    /\ \E t \in PhonesOf(1) :
           /\ PointersIn(pre[1], t) # {}
           /\ PointersIn(pre[1], t) # PointersIn(strs, t)

\* C2: tel_id on the empty contact string, or on a list whose first entry is
\* empty, returns "Unknown" and leaves the store as it was
C2_UnknownSentinel ==
    \A w \in Workers :
        (Returned(w) /\ tels[w][1] = "") =>
            /\ ret[w] = "Unknown"
            /\ strs = pre[w]
            /\ counter = <<>>
            /\ hashes = <<>>

\* C2 witness: a call whose first entry is empty and whose list holds a
\* non-empty phone without a pointer has returned, the store being non-empty
C2_Witness ==
    /\ Returned(1)
    /\ tels[1][1] = ""
    /\ \E t \in PhonesOf(1) : t # "" /\ PointersIn(strs, t) = {}
    /\ strs # <<>>

\* C2 second case: the empty contact string
C2_EmptyString == \A w \in Workers : (Returned(w) /\ contact[w] = <<>>) => ret[w] = "Unknown"

\* C3 as stated: in every state, also between the store operations of a call,
\* a phone that has a pointer keeps exactly one pointer
C3_ExactlyOneAlways ==
    [][\A t \in AllPhones :
          Cardinality(PointersIn(strs, t)) = 1 => Cardinality(PointersIn(strs', t)) = 1]_vars

\* the phone whose pointer update_tel_parent has deleted and not yet set again
InUpdate(t) == pc[1] = "set" /\ tels[1][k[1]] = t

\* C3 amended: no phone ever has two pointers, and a phone that has a pointer
\* loses it only to the delete of its own update_tel_parent, whose set gives it
\* one pointer again in the next store operation
C3_AtMostOne ==
    /\ [](AtMostOnePointer(strs))
    /\ [][\A t \in AllPhones :
            /\ Cardinality(PointersIn(strs, t)) = 1 =>
                   \/ Cardinality(PointersIn(strs', t)) = 1
                   \/ Cardinality(PointersIn(strs', t)) = 0 /\ InUpdate(t)'
            /\ (Cardinality(PointersIn(strs, t)) = 0 /\ InUpdate(t)) =>
                   Cardinality(PointersIn(strs', t)) = 1]_vars

\* C3 witness: the pointer of a phone that had one is deleted and not yet set
C3_Witness ==
    /\ pc[1] = "set"
    /\ PointersIn(pre[1], tels[1][k[1]]) # {}
    /\ PointersIn(strs, tels[1][k[1]]) = {}

\* the parent a phone points to (itself when it has no pointer)
ParentOf(t) ==
    IF PointersIn(strs, t) = {} THEN t ELSE (CHOOSE key \in PointersIn(strs, t) : TRUE)[3]

\* the phone reached from t after following n parent pointers
RECURSIVE Follow(_, _)
Follow(t, n) == IF n = 0 THEN t ELSE Follow(ParentOf(t), n - 1)

\* following the parent pointers from t ends: it reaches a self-parented phone
\* (more steps than there are phones cannot reach anything new)
Ends(t) == ParentOf(Follow(t, NumTel + 1)) = Follow(t, NumTel + 1)

SameCanonical(a, b) == Ends(a) /\ Ends(b) /\ Follow(a, NumTel + 1) = Follow(b, NumTel + 1)

\* the identity resolution with the pairs of every finished call recorded
InitMerge == InitStore /\ obs = {"together"}

NextMerge == (\E c \in PhoneLists : CallTelId(1, c)) \/ TelIdStep(1)

SpecMerge == InitMerge /\ [][NextMerge]_vars

\* C4 as stated: between the calls of one worker, two phones that were together
\* in the list of an earlier call lead to the same canonical parent
C4_SameCanonical ==
    pc[1] \in {"idle", "done"} =>
        \A pair \in together : \A a, b \in pair : SameCanonical(a, b)

----------------------------------------------------------------------------
(* Specification of the default pushes of two workers sharing one store *)

NextPush ==
    \E w \in Workers :
        \/ \E self \in Cursors : StartPushDefault(w, self, <<>>, "t1")
        \/ Incr(w)
        \/ Hset(w)

SpecPush == Init /\ [][NextPush]_vars

----------------------------------------------------------------------------
(* Specification of the pushes of one worker, user-scoped and default *)

\* the cursors of the user-scoped pushes
UserCursors == {self \in Cursors : self.category = "c1" /\ self.partition = ""}

\* the contact strings of the pushed records
PushContacts == {c \in PhoneLists \cup {<<>>} : Len(c) <= 3 /\ \A i \in 1..Len(c) : c[i] \in {"1", "2", ";"}}

NextUser ==
    \/ \E self \in Cursors : StartPushDefault(1, self, <<>>, "t1")
    \/ \E self \in UserCursors, c \in PushContacts, t \in Titles : StartPushUser(1, self, c, t)
    \/ Keys(1)
    \/ SetSelf(1)
    \/ Delete(1)
    \/ Set(1)
    \/ Incr(1)
    \/ Hset(1)

SpecUser == Init /\ [][NextUser]_vars

----------------------------------------------------------------------------
(* C5..C7: keys and counters of the pushes *)

\* the numbers INCR returned for the counter name, up to the j-th INCR
IssuedBefore(name, j) == {i \in 1..j : issued[i][1] = name}

\* C5: default pushes of any cursors, their store operations interleaved, take
\* their numbers from the one counter 'items': the j-th INCR returns j, so later
\* numbers are larger and none is handed out twice; every key written ends in
\* a number that was handed out, and no key is written twice
C5_NoKeyCollision ==
    /\ \A j \in 1..Len(issued) : issued[j] = <<<<"items">>, j>>
    /\ \A j \in 1..Len(written) :
           \E i \in 1..Len(issued) : written[j][Len(written[j])] = ToString(issued[i][2])
    /\ \A i, j \in 1..Len(written) : i # j => written[i] # written[j]
    /\ Cardinality(DOMAIN hashes) = Len(written)

\* C5 witness: two pushes of cursors with the same pattern have interleaved, the
\* one that took the larger number wrote first
C5_Witness ==
    /\ Len(written) >= 2
    /\ SubSeq(written[1], 1, Len(written[1]) - 1) = SubSeq(written[2], 1, Len(written[2]) - 1)
    /\ written[1][Len(written[1])] = "2"
    /\ written[2][Len(written[2])] = "1"

\* the phones of the running push have been resolved to ret[w]
Resolved(w) ==
    IF tels[w][1] = "" THEN ret[w] = "Unknown"
    ELSE \A t \in PhonesOf(w) : PointersIn(strs, t) = {<<"root", "Ids", ret[w], t>>}

\* C6: a user-scoped push resolves the identity, then increments the counter
\* named by the users pattern of that identity, then writes the hash at
\* <pattern>:<title>:<seq>; the number a push receives is the count of the
\* pushes to the same pattern so far, whatever was pushed to other patterns
C6_UserPushOrder ==
    /\ \A w \in Workers :
           (mode[w] = "push" /\ pc[w] \in {"incr", "hset"}) =>
               /\ Resolved(w)
               /\ pattern[w] = <<cur[w].root, "Users", ret[w], "Domains", cur[w].domain,
                                 "Categories", cur[w].category>>
               /\ pc[w] = "incr" => Len(issued) = Len(written)
               /\ pc[w] = "hset" =>
                      /\ Len(issued) = Len(written) + 1
                      /\ issued[Len(issued)] = <<pattern[w], seq[w]>>
    /\ \A j \in 1..Len(issued) :
           issued[j][2] = Cardinality(IssuedBefore(issued[j][1], j))
    /\ \A j \in 1..Len(written) :
           issued[j][1] # <<"items">> =>
               written[j] = issued[j][1] \o <<hashes[written[j]].ProductTitle,
                                              ToString(issued[j][2])>>

\* C6 witness: three user-scoped pushes are done, the first and the third to one
\* users pattern with the numbers 1 and 2, the second to another pattern with
\* the number 1, and the third push has merged two phones
C6_Witness ==
    /\ Len(written) = 3
    /\ issued[1][1] # <<"items">>
    /\ issued[2][1] # <<"items">>
    /\ issued[1][1] = issued[3][1]
    /\ issued[1][1] # issued[2][1]
    /\ issued[3][2] = 2
    /\ issued[2][2] = 1
    /\ Len(hashes[written[3]].Contact) = 3

\* a key pattern with an empty segment: two adjacent ':' or a leading or trailing ':'
HasEmptySegment(pat) == Len(pat) >= 2 /\ \E i \in 1..Len(pat) : pat[i] = ""

\* C7 as stated: the pattern of every push, default or user-scoped, has no empty segment
C7_NoEmptySegment ==
    \A w \in Workers : pc[w] \in {"incr", "hset"} => ~HasEmptySegment(pattern[w])

\* the part of C7 that holds: the default pattern has no empty segment
C7_DefaultPattern ==
    \A w \in Workers :
        (pc[w] \in {"incr", "hset"} /\ mode[w] = "dpush") => ~HasEmptySegment(pattern[w])

----------------------------------------------------------------------------
(* C8: identity resolution by two workers sharing one store *)

\* the contact strings of the two racing workers
RaceContacts == {c \in PhoneLists : Len(c) <= 3 /\ \A i \in 1..Len(c) : c[i] \in {"1", "2", ";"}}

InitRace == InitStore /\ obs = {"touched"}

NextRace == \E w \in Workers : (\E c \in RaceContacts : CallTelId(w, c)) \/ TelIdStep(w)

SpecRace == InitRace /\ [][NextRace]_vars

\* C8: with only the single store operations atomic, the resolutions of two
\* workers race on the phones both look up, and only on those: a phone gets
\* a second parent pointer only if both workers have looked it up
C8_RaceOnShared ==
    \A t \in AllPhones :
        Cardinality(PointersIn(strs, t)) >= 2 => t \in touched[1] \cap touched[2]

\* C8 witness: both workers have returned from calls on lists that share a
\* phone, and the shared phone has two parent pointers
C8_Witness ==
    /\ Returned(1)
    /\ Returned(2)
    /\ \E t \in PhonesOf(1) \cap PhonesOf(2) : Cardinality(PointersIn(strs, t)) = 2

\* the other outcome of the race: both workers have returned, worker 1 has
\* re-parented a shared phone onto its identity, and the phone does not have it
C8_LostUpdate ==
    /\ Returned(1)
    /\ Returned(2)
    /\ \E t \in PhonesOf(1) \cap PhonesOf(2) :
           /\ AtMostOnePointer(strs)
           /\ ret[1] # ret[2]
           /\ PointersIn(strs, t) = {<<"root", "Ids", ret[2], t>>}

----------------------------------------------------------------------------
(* Formatter.cast / Formatter.format, the field classes and Item.parse *)

MaxRaw == 2         \* longest list of matched values of one field

\* the strings a path expression can match
RawStrings == {"a", "b"}

\* html.xpath(...).getall(): the list of matched values
RawValues == UNION {[1..n -> RawStrings] : n \in 0..MaxRaw}

\* the exception classes and their base classes: class ParseError(BaseException)
Bases ==
    [ParseError |-> {"ParseError", "BaseException"},
     ValueError |-> {"ValueError", "Exception", "BaseException"},
     KeyboardInterrupt |-> {"KeyboardInterrupt", "BaseException"}]

ExcClasses == DOMAIN Bases

\* what a call can end with
Returns(v) == [kind |-> "return", val |-> v]
Raises(e) == [kind |-> "raise", exc |-> e]

None == [none |-> TRUE]

\* a mutation of Caught: except Exception
Caught_Exception(exc) == "Exception" \in Bases[exc]

\* except ParseError: the exceptions the handler of Formatter.cast catches
Caught(exc) == "ParseError" \in Bases[exc]

\* Formatter.cast, wrapper: res = None; try: res = func(self, value);
\* except ParseError: logger.warning(...); return res
cast(inner) ==
    IF inner.kind = "raise" /\ Caught(inner.exc) THEN Returns(None) ELSE inner

\* the field classes registered with MainItem (@MainItem.register)
Registry ==
    {"ProductTitle", "VendorLocation", "PublishDate", "Contact", "PublishLink", "ProductPrice"}

\* the orders in which the distinct values of a list can come out of set(value)
Orders(value) ==
    LET distinct == {value[i] : i \in 1..Len(value)} IN
    {o \in UNION {[1..n -> distinct] : n \in {Cardinality(distinct)}} :
        \A i, j \in 1..Len(o) : i # j => o[i] # o[j]}

\* ravel(value, sep): sep.join(set(value)), the text as its separator and its words
ravel(order, sep) == [sep |-> sep, words |-> order]

\* what the libraries called by fmethod can do with a text: dateparser.parse
\* returns a date or None, or raises
LibOutcomes == {"value", "none", "ValueError"}

\* dateparser.parse(text): None for the empty text
dateparser_parse(text, lib) == IF text.words = <<>> THEN "none" ELSE lib

\* the fmethod of every field class, on the matched values in the order set()
\* gives them, lib being what the library does
fmethod(field, order, lib) ==
    CASE field = "PublishDate" ->
             \* date = dateparser.parse(ravel(value)); if date: return date.isoformat()
             \* else: raise ParseError
             LET date == dateparser_parse(ravel(order, " "), lib) IN
             IF date = "value" THEN Returns([iso |-> ravel(order, " ")])
             ELSE IF date = "none" THEN Raises("ParseError")
             ELSE Raises(date)
      [] field = "PublishLink" -> Returns(ravel(order, ";"))
      [] field = "Contact" -> Returns([phones |-> ravel(order, " ")])
      [] field = "ProductPrice" -> Returns([prices |-> ravel(order, ";")])
      [] OTHER -> Returns(ravel(order, " "))

\* Formatter.format: the cast wrapper around self.fmethod(value)
format(field, order, lib) == cast(fmethod(field, order, lib))

\* Formatter.format(value) of one field on one list of raw values
Format(field, raw, lib) ==
    /\ fmt.op = "none"
    /\ \E order \in Orders(raw) :
           fmt' = [op |-> "format", field |-> field, raw |-> raw,
                   inner |-> fmethod(field, order, lib),
                   out |-> format(field, order, lib)]
    /\ UNCHANGED <<strs, counter, hashes, pc, mode, cur, contact, tels, parents, k, ret,
                   title, pattern, seq, pre, touched, together, written, issued, obs, moved, lastcall, pagevars>>

\* the fragments: what the relative path expressions of every field match
Fragments == [Registry -> {raw \in RawValues : Len(raw) <= 1}]

Running == [kind |-> "running"]

\* Item.parse(html): self = cls(); the comprehension over self.registry begins
StartParse(frag, lib) ==
    /\ fmt.op = "none"
    /\ fmt' = [op |-> "parse", frag |-> frag, lib |-> lib, todo |-> Registry,
               inner |-> <<>>, vals |-> <<>>, out |-> Running]
    /\ UNCHANGED <<strs, counter, hashes, pc, mode, cur, contact, tels, parents, k, ret,
                   title, pattern, seq, pre, touched, together, written, issued, obs, moved, lastcall, pagevars>>

\* MappedData(str(self), item_fields): the dataclass of the values and CreatedAt
MappedData(vals) ==
    [name \in DOMAIN vals \cup {"CreatedAt"} |->
        IF name = "CreatedAt" THEN [now |-> TRUE] ELSE vals[name]]

\* Item.parse: getattr(field(html), method) for the next field of the registry
\* (a set: any order); an exception that format lets through ends the call,
\* and after the last field the record is built
ParseField(field) ==
    /\ fmt.op = "parse"
    /\ fmt.out = Running
    /\ field \in fmt.todo
    /\ LET in == fmethod(field, fmt.frag[field], fmt.lib)
           o == format(field, fmt.frag[field], fmt.lib)
           inner == [f \in DOMAIN fmt.inner \cup {field} |->
                        IF f = field THEN in ELSE fmt.inner[f]]
           vals == [f \in DOMAIN fmt.vals \cup {field} |->
                        IF f = field THEN o.val ELSE fmt.vals[f]] IN
       IF o.kind = "raise"
         THEN fmt' = [fmt EXCEPT !.todo = @ \ {field}, !.inner = inner, !.out = o]
         ELSE fmt' = [fmt EXCEPT !.todo = @ \ {field}, !.inner = inner, !.vals = vals,
                                 !.out = IF fmt.todo = {field}
                                           THEN Returns(MappedData(vals)) ELSE Running]
    /\ UNCHANGED <<strs, counter, hashes, pc, mode, cur, contact, tels, parents, k, ret,
                   title, pattern, seq, pre, touched, together, written, issued, obs, moved, lastcall, pagevars>>

\* the caller has the result of format or parse
Discard ==
    /\ fmt.op # "none"
    /\ fmt.out # Running
    /\ fmt' = NoFmt
    /\ UNCHANGED <<strs, counter, hashes, pc, mode, cur, contact, tels, parents, k, ret,
                   title, pattern, seq, pre, touched, together, written, issued, obs, moved, lastcall, pagevars>>

NextItem ==
    \/ fmt.op = "none" /\ \E field \in Registry, raw \in RawValues, lib \in LibOutcomes :
                              Format(field, raw, lib)
    \/ fmt.op = "none" /\ \E frag \in Fragments, lib \in LibOutcomes : StartParse(frag, lib)
    \/ \E field \in Registry : ParseField(field)
    \/ Discard

SpecItem == Init /\ [][NextItem]_vars

----------------------------------------------------------------------------
(* C9, C10: error containment *)

\* C9 as stated: whatever exception the formatting function of a field raises,
\* format returns None, and Item.parse goes on with the remaining fields
C9_AnyExceptionCaught ==
    /\ (fmt.op = "format" /\ fmt.inner.kind = "raise") => fmt.out = Returns(None)
    /\ fmt.op = "parse" => fmt.out.kind # "raise"

\* the part of C9 that holds: a ParseError raised by the formatting function is
\* caught, format returns None
C9_ParseErrorCaught ==
    (fmt.op = "format" /\ fmt.inner = Raises("ParseError")) => fmt.out = Returns(None)

\* a field whose formatting failed with ParseError
Failed(f) == f \in DOMAIN fmt.inner /\ fmt.inner[f] = Raises("ParseError")

\* C10: Item.parse, when no formatting raises anything but ParseError, produces
\* a record, and every record it produces has the registered field classes and
\* CreatedAt as its fields; a field whose formatting failed with ParseError is
\* there with the value None, every other field with the value its formatting
\* returned
C10_RecordFields ==
    fmt.op = "parse" =>
        /\ (fmt.todo = {} /\ \A f \in Registry : Failed(f) \/ fmt.inner[f].kind = "return")
               => fmt.out.kind = "return"
        /\ fmt.out.kind = "return" =>
               /\ DOMAIN fmt.out.val = Registry \cup {"CreatedAt"}
               /\ \A f \in Registry :
                      fmt.out.val[f] = IF Failed(f) THEN None ELSE fmt.inner[f].val

\* C10 witness: a record of a fragment without date markup, its other fields matched
C10_Witness ==
    /\ fmt.op = "parse"
    /\ fmt.frag["PublishDate"] = <<>>
    /\ \A f \in Registry \ {"PublishDate"} : fmt.frag[f] # <<>>
    /\ fmt.out.kind = "return"
    /\ Failed("PublishDate")
    /\ fmt.out.val["PublishDate"] = None
    /\ fmt.out.val["ProductTitle"] # None

----------------------------------------------------------------------------
(* Page: the fragments of one response and the cursor _ix over them *)

MaxItems == 3       \* most fragments of one page
MaxNext == 8        \* next() calls on one page instance

\* the records Page.as_item makes of the fragments (Item.parse, flattened)
PageRecords == {Piped(<<"1">>, "t1"), Piped(<<"1", ";", "2">>, "t1"), Piped(<<>>, "t2")}

\* response.xpath('|'.join(self.xpaths)): the fragments of the page, as their records
PageItems == UNION {[1..n -> PageRecords] : n \in 0..MaxItems}

\* response.xpath('|'.join(self.next_xpaths)).get(): None, or the href, which can be ''
Links == {NoLink, "", "url"}

\* raise StopIteration, in the log of an iteration
StopIteration == -1

\* a mutation of next_ix: the cursor is not reset at exhaustion
next_ix_kept(i, n) == IF i < n THEN i + 1 ELSE i

\* Page.__next__, the cursor: if self._ix < len(self): self._ix += 1 ... else self._ix = 0
next_ix(i, n) == IF i < n THEN i + 1 ELSE 0

\* a mutation of next_result: self[self._ix] after the increment
next_result_after(i, n) == IF i < n THEN i + 1 ELSE StopIteration

\* Page.__next__, the result: self[self._ix - 1] after the increment, or StopIteration
next_result(i, n) == IF i < n THEN i ELSE StopIteration

\* Page.__init__: a new page instance for a response, its cursor at the class default 0
NewPage(its, link) ==
    /\ hpc = "idle"
    /\ ix' = 0
    /\ items' = its
    /\ nxt' = link
    /\ iters' = [i \in Iterations |-> <<>>]
    /\ UNCHANGED <<strs, counter, hashes, pc, mode, cur, contact, tels, parents, k, ret,
                   title, pattern, seq, pre, touched, together, written, issued, obs, fmt,
                   moved, lastcall, follow, hpc, hlog, db, flat>>

\* next(page) called by iteration i (Page.__iter__ returns the page itself)
PageNext(i) ==
    /\ hpc = "idle"
    /\ Len(iters[1]) + Len(iters[2]) < MaxNext
    /\ ix' = next_ix(ix, Len(items))
    /\ iters' = [iters EXCEPT ![i] = Append(@, next_result(ix, Len(items)))]
    /\ UNCHANGED <<strs, counter, hashes, pc, mode, cur, contact, tels, parents, k, ret,
                   title, pattern, seq, pre, touched, together, written, issued, obs, fmt,
                   moved, lastcall, items, nxt, follow, hpc, hlog, db, flat>>

NextPage ==
    \/ \E its \in PageItems, link \in Links : NewPage(its, link)
    \/ \E i \in Iterations : PageNext(i)

SpecPage == Init /\ [][NextPage]_vars

\* the indices an iteration has been yielded
Yielded(i) == {iters[i][j] : j \in 1..Len(iters[i])} \ {StopIteration}

\* no next() call on the page has signalled exhaustion yet
NoStopYet == \A i \in Iterations : \A j \in 1..Len(iters[i]) : iters[i][j] # StopIteration

\* C11: when one iteration alone drives a page of n fragments from cursor 0, its
\* j-th next() yields the index (j-1) mod (n+1) when that is below n and signals
\* exhaustion when it is n: the indices 0..n-1 in order, each once, then the
\* exhaustion, then the same again; the cursor is 0 after every exhaustion (for
\* n = 0 every step is an exhaustion)
C11_SingleTraversal ==
    iters[2] = <<>> =>
        LET n == Len(items) IN
        /\ \A j \in 1..Len(iters[1]) :
               iters[1][j] = IF (j - 1) % (n + 1) = n THEN StopIteration ELSE (j - 1) % (n + 1)
        /\ ix = Len(iters[1]) % (n + 1)

\* C11 witness: one iteration alone has traversed a page of three fragments
\* twice, both times up to the exhaustion
C11_Witness ==
    /\ iters[2] = <<>>
    /\ Len(items) = 3
    /\ iters[1] = <<0, 1, 2, StopIteration, 0, 1, 2, StopIteration>>
    /\ ix = 0

\* the exhaustions signalled to iteration i
Stops(i) == {j \in 1..Len(iters[i]) : iters[i][j] = StopIteration}

\* the first exhaustion has just been signalled: it is the only one, it is the
\* last thing its iteration was given, and nothing has been yielded since
AtFirstStop ==
    /\ Cardinality(Stops(1)) + Cardinality(Stops(2)) = 1
    /\ \A i \in Iterations : Stops(i) \subseteq {Len(iters[i])}
    /\ Len(iters[1]) + Len(iters[2]) = Len(items) + 1

\* C20 as stated: with both iterations calling next(), up to the first
\* exhaustion every index has been yielded to exactly one of the two iterations
\* and neither has been yielded all n
C20_NeitherSeesAll ==
    (iters[1] # <<>> /\ iters[2] # <<>> /\ (NoStopYet \/ AtFirstStop)) =>
        /\ Yielded(1) \cap Yielded(2) = {}
        /\ \A i \in Iterations : Yielded(i) # 0..(Len(items) - 1)

\* C20 amended: until the first exhaustion every index below the cursor has been
\* yielded once, to exactly one of the two iterations, and once both have been
\* yielded an index neither has all n; an index is yielded a second time only
\* after an exhaustion has reset the cursor
C20_SharedCursor ==
    /\ NoStopYet =>
           /\ Yielded(1) \cap Yielded(2) = {}
           /\ Yielded(1) \cup Yielded(2) = 0..(ix - 1)
           /\ Len(iters[1]) + Len(iters[2]) = ix
           /\ (Yielded(1) # {} /\ Yielded(2) # {}) =>
                  \A i \in Iterations : Yielded(i) # 0..(Len(items) - 1)
    /\ Yielded(1) \cap Yielded(2) # {} => ~NoStopYet

\* C20 witness: the two iterations shared the indices of a page of three
\* fragments, the exhaustion signalled to iteration 2 reset the cursor, and
\* iteration 1 has then been yielded the index 0 that iteration 2 already had
C20_Witness ==
    /\ Len(items) = 3
    /\ iters[2] = <<0, 2, StopIteration>>
    /\ iters[1] = <<1, 0>>

----------------------------------------------------------------------------
(* Site.spider: SiteSpider.parse, the response handler, a generator the crawl *)
(* engine drives; worker 1 runs the pushes of the handler                      *)

\* the push targets of a site: Site.Db, or the cursor given as db (MainSite.__init__)
Targets ==
    {DefaultDb, [kind |-> "Redis", cursor |-> DefaultCursor],
     [kind |-> "RedisUser", cursor |-> DefaultCursor]}

\* the truth value of page.next in `if page.next and self.follow`
Truthy(link) == link \notin {NoLink, ""}

\* an entry of the log of the handler
Event(e, i) == [ev |-> e, i |-> i]

\* a mutation of CurrentIndex: self[self._ix]
CurrentIndex_ix == ix

\* the record of the running loop iteration: item = page[self._ix - 1]
CurrentIndex == ix - 1

\* a mutation of AfterRaise: the failure is swallowed and the loop goes on
AfterRaise_caught == "next"

\* where the handler is after a push has raised: parse has no try statement,
\* the exception leaves the generator
AfterRaise == "raised"

\* what the crawl engine receives from the generator: the values it yields
ToEngine(e) == e.ev = "yield"

\* the engine starts parse(response): page := self.pageclass(response), iter(page)
StartHandler(its, link, fol, target) ==
    /\ hpc = "idle"
    /\ pc[1] = "idle"
    /\ ix' = 0
    /\ items' = its
    /\ nxt' = link
    /\ follow' = fol
    /\ db' = target
    /\ hlog' = <<>>
    /\ hpc' = "next"
    /\ UNCHANGED <<strs, counter, hashes, pc, mode, cur, contact, tels, parents, k, ret,
                   title, pattern, seq, pre, touched, together, written, issued, obs, fmt,
                   moved, lastcall, iters, flat>>

\* for item in page: next(page) gives the next record or ends the loop
HandlerNext ==
    /\ hpc = "next"
    /\ ix' = next_ix(ix, Len(items))
    /\ hpc' = IF next_result(ix, Len(items)) = StopIteration THEN "after" ELSE "push"
    /\ UNCHANGED <<strs, counter, hashes, pc, mode, cur, contact, tels, parents, k, ret,
                   title, pattern, seq, pre, touched, together, written, issued, obs, fmt,
                   moved, lastcall, items, nxt, follow, iters, hlog, db, flat>>

\* item >> self.db: MappedData.__rshift__ calls cursor.push(self)
HandlerRshift ==
    /\ hpc = "push"
    /\ hpc' = "pushing"
    /\ UNCHANGED <<strs, counter, hashes, pc, mode, cur, contact, tels, parents, k, ret,
                   title, pattern, seq, pre, touched, together, written, issued, obs, fmt,
                   moved, lastcall, ix, items, nxt, follow, iters, hlog, db, flat>>

\* Site.Db.push(val): return val
PushDb ==
    /\ hpc = "pushing"
    /\ db.kind = "Db"
    /\ hpc' = "pushed"
    /\ UNCHANGED <<strs, counter, hashes, pc, mode, cur, contact, tels, parents, k, ret,
                   title, pattern, seq, pre, touched, together, written, issued, obs, fmt,
                   moved, lastcall, ix, items, nxt, follow, iters, hlog, db, flat>>

\* cursor.push(self) on a Redis or a RedisUser cursor begins
PushCursor ==
    /\ hpc = "pushing"
    /\ LET record == items[ix] IN
       \/ db.kind = "Redis" /\ StartPushDefault(1, db.cursor, record.Contact, record.ProductTitle)
       \/ db.kind = "RedisUser"
              /\ StartPushUser(1, db.cursor, record.Contact, record.ProductTitle)

\* a store operation of the running push raises (redis.exceptions.RedisError);
\* nothing between the store call and the engine catches it
StoreFails(w) ==
    /\ hpc = "pushing"
    /\ w = 1
    /\ pc[w] \in {"keys", "setself", "delete", "set", "incr", "hset"}
    /\ pc' = [pc EXCEPT ![w] = "idle"]
    /\ mode' = [mode EXCEPT ![w] = "tel_id"]
    /\ cur' = [cur EXCEPT ![w] = DefaultCursor]
    /\ title' = [title EXCEPT ![w] = ""]
    /\ pattern' = [pattern EXCEPT ![w] = <<>>]
    /\ seq' = [seq EXCEPT ![w] = 0]
    /\ contact' = [contact EXCEPT ![w] = <<>>]
    /\ tels' = [tels EXCEPT ![w] = <<>>]
    /\ parents' = [parents EXCEPT ![w] = <<>>]
    /\ k' = [k EXCEPT ![w] = 1]
    /\ ret' = [ret EXCEPT ![w] = "Unknown"]
    /\ pre' = [pre EXCEPT ![w] = <<>>]
    /\ hpc' = AfterRaise
    /\ hlog' = Append(hlog, Event("raise", CurrentIndex))
    /\ UNCHANGED <<strs, counter, hashes, touched, together, written, issued, obs, fmt, moved, lastcall,
                   ix, items, nxt, follow, iters, db, flat>>

\* cursor.push has returned to the loop body
HandlerPushed ==
    /\ hpc = "pushed"
    /\ hlog' = Append(hlog, Event("push", CurrentIndex))
    /\ hpc' = "yield"
    /\ UNCHANGED <<strs, counter, hashes, pc, mode, cur, contact, tels, parents, k, ret,
                   title, pattern, seq, pre, touched, together, written, issued, obs, fmt,
                   moved, lastcall, ix, items, nxt, follow, iters, db, flat>>

\* yield item.to_dict(): the engine receives the mapping of the record
HandlerYield ==
    /\ hpc = "yield"
    /\ hlog' = Append(hlog, Event("yield", CurrentIndex))
    /\ hpc' = "next"
    /\ UNCHANGED <<strs, counter, hashes, pc, mode, cur, contact, tels, parents, k, ret,
                   title, pattern, seq, pre, touched, together, written, issued, obs, fmt,
                   moved, lastcall, ix, items, nxt, follow, iters, db, flat>>

\* if page.next and self.follow: response.follow(page.next, callback=self.parse)
\* the Request that response.follow returns is not yielded: the statement is an
\* expression statement, the generator ends and the engine receives nothing more
HandlerFollow ==
    /\ hpc = "after"
    /\ hlog' = IF Truthy(nxt) /\ follow THEN Append(hlog, Event("follow", Len(items)))
               ELSE hlog
    /\ hpc' = "done"
    /\ UNCHANGED <<strs, counter, hashes, pc, mode, cur, contact, tels, parents, k, ret,
                   title, pattern, seq, pre, touched, together, written, issued, obs, fmt,
                   moved, lastcall, ix, items, nxt, follow, iters, db, flat>>

NextSite ==
    \/ \E its \in PageItems, link \in Links, fol \in BOOLEAN, target \in Targets :
           StartHandler(its, link, fol, target)
    \/ HandlerNext
    \/ HandlerRshift
    \/ PushDb
    \/ PushCursor
    \/ Keys(1)
    \/ SetSelf(1)
    \/ Delete(1)
    \/ Set(1)
    \/ Incr(1)
    \/ Hset(1)
    \/ StoreFails(1)
    \/ HandlerPushed
    \/ HandlerYield
    \/ HandlerFollow

SpecSite == Init /\ [][NextSite]_vars

----------------------------------------------------------------------------
(* C12..C14: the response handler *)

\* the entries of the log of the handler with the event e
Events(e) == {j \in 1..Len(hlog) : hlog[j].ev = e}

\* C12 as stated: when the handler has handled every record of the page, a
\* request for the next link has been issued to the crawl engine exactly when
\* the page has a next link and follow is enabled
C12_RequestIssued ==
    hpc = "done" =>
        ((\E j \in 1..Len(hlog) : hlog[j].ev = "follow" /\ ToEngine(hlog[j]))
            <=> (Truthy(nxt) /\ follow))

\* the part of C12 that holds: the request object is built by response.follow
\* exactly when the page has a next link and follow is enabled
C12_RequestBuilt ==
    hpc = "done" => (Events("follow") # {} <=> (Truthy(nxt) /\ follow))

\* C13: as long as no push has failed, the log of the handler is a prefix of
\* push 0, yield 0, push 1, yield 1, ..., push n-1, yield n-1, follow: the
\* records are handled in page order, each pushed once and before it is
\* yielded, and response.follow is called only after the last record was pushed
\* and yielded; with a cursor as push target the hashes written are the records
\* of the page, in page order, one per push
C13_PushBeforeYield ==
    /\ \A j \in 1..Len(hlog) :
           /\ hlog[j].ev = "push" => (j % 2 = 1 /\ hlog[j].i = (j - 1) \div 2)
           /\ hlog[j].ev = "yield" =>
                  (j % 2 = 0 /\ hlog[j].i = (j - 2) \div 2 /\ hlog[j - 1] = Event("push", hlog[j].i))
           /\ hlog[j].ev = "follow" => (j = 2 * Len(items) + 1 /\ j = Len(hlog))
    /\ (hpc # "idle" /\ db.kind # "Db") =>
           /\ Len(written) = Cardinality(Events("push")) + (IF hpc = "pushed" THEN 1 ELSE 0)
           /\ \A m \in 1..Len(written) : hashes[written[m]] = items[m]

\* C13 witness: the handler has handled a page of three records with a
\* RedisUser cursor as push target and has called response.follow at the end
C13_Witness ==
    /\ hpc = "done"
    /\ db.kind = "RedisUser"
    /\ Len(items) = 3
    /\ Len(written) = 3
    /\ hlog = <<Event("push", 0), Event("yield", 0), Event("push", 1), Event("yield", 1),
                Event("push", 2), Event("yield", 2), Event("follow", 3)>>

\* C14: a store operation that fails during the push of record i ends the
\* handler call: the failure is the last entry of its log, after the pushes and
\* yields of the records before i; the record i and the later records are
\* neither pushed nor yielded, response.follow is not called, and worker 1
\* issues no further store operation
C14_FailurePropagates ==
    \A j \in Events("raise") :
        /\ j = Len(hlog)
        /\ j = 2 * hlog[j].i + 1
        /\ hpc = "raised"
        /\ pc[1] = "idle"
        /\ Events("follow") = {}
        /\ \A m \in 1..(j - 1) : hlog[m].i < hlog[j].i
        /\ db.kind # "Db" /\ Len(written) = hlog[j].i

\* C14 witness: on a page of three records with a next link, follow enabled,
\* the first record was pushed and yielded, and the hash write of the second
\* failed after its counter increment
C14_Witness ==
    /\ Len(items) = 3
    /\ Truthy(nxt)
    /\ follow
    /\ db.kind = "RedisUser"
    /\ hlog = <<Event("push", 0), Event("yield", 0), Event("raise", 1)>>
    /\ Len(issued) = 2
    /\ Len(written) = 1

----------------------------------------------------------------------------
(* flatten_dict.  A key is a string, modelled as the sequence of its tokens  *)
(* (letters, digits and the separator ":"); a mapping is the sequence of its *)
(* (key, value) items in insertion order, its keys distinct.                 *)

FlatSize == 2       \* most items of one mapping, most elements of one list

\* the keys of the input mappings: 'a', 'a:0' and ''
FlatKeys == {<<"a">>, <<"a", ":", "0">>, <<>>}

\* the values: scalars, mappings (dict) and lists
Atom(x) == [t |-> "atom", a |-> x, items |-> <<>>]
Dict(its) == [t |-> "dict", a |-> "", items |-> its]
List(els) == [t |-> "list", a |-> "", items |-> els]

Atoms == {Atom("x"), Atom("y")}

SeqsUpTo(S, n) == UNION {[1..m -> S] : m \in 0..n}

\* the item sequences of the mappings with values in V
ItemsOver(V, n) ==
    {its \in SeqsUpTo([key : FlatKeys, val : V], n) :
        \A i, j \in 1..Len(its) : i # j => its[i].key # its[j].key}

DictsOver(V) == {Dict(its) : its \in ItemsOver(V, FlatSize)}

ListsOver(V) == {List(els) : els \in SeqsUpTo([key : {<<>>}, val : V], FlatSize)}

\* scalars, and mappings and lists of scalars
Nested1 == Atoms \cup DictsOver(Atoms) \cup ListsOver(Atoms)

\* the input mappings: up to FlatSize items with values nested once, or one
\* item whose value is nested twice
Mappings == ItemsOver(Nested1, FlatSize) \cup ItemsOver(DictsOver(Nested1) \cup ListsOver(Nested1), 1)

\* a mutation of IsNested: isinstance(val, dict) only
IsNested_dict(v) == v.t = "dict"

\* isinstance(val, dict) or isinstance(val, list)
IsNested(v) == v.t \in {"dict", "list"}

\* dict(items): a later item with the same key replaces the value of the earlier one
RECURSIVE dict_of(_)
dict_of(pairs) ==
    IF pairs = <<>> THEN <<>>
    ELSE LET d == dict_of(SubSeq(pairs, 1, Len(pairs) - 1))
             last == pairs[Len(pairs)] IN
         IF \E j \in 1..Len(d) : d[j].key = last.key
           THEN [j \in 1..Len(d) |-> IF d[j].key = last.key THEN last ELSE d[j]]
           ELSE Append(d, last)

\* new_key = parent_key + sep + k if parent_key else k
new_key(parent_key, name) ==
    IF parent_key # <<>> THEN parent_key \o <<":">> \o name ELSE name

RECURSIVE flatten_dict(_, _)
RECURSIVE flatten_items(_, _)
RECURSIVE flatten_list(_, _, _)

\* for i, val in enumerate(v): the items a list adds, from its element i on
flatten_list(els, key, i) ==
    IF els = <<>> THEN <<>>
    ELSE LET val == Head(els).val
             here == IF IsNested(val)
                       THEN flatten_dict(<<[key |-> <<ToString(i)>>, val |-> val]>>, key)
                       ELSE <<[key |-> key \o <<":", ToString(i)>>, val |-> val]>> IN
         here \o flatten_list(Tail(els), key, i + 1)

\* for k, v in d.items(): the list items after the loop
flatten_items(d, parent_key) ==
    IF d = <<>> THEN <<>>
    ELSE LET v == Head(d).val
             key == new_key(parent_key, Head(d).key)
             here == CASE v.t = "dict" -> flatten_dict(v.items, key)
                       [] v.t = "list" -> flatten_list(v.items, key, 0)
                       [] OTHER -> <<[key |-> key, val |-> v]>> IN
         here \o flatten_items(Tail(d), parent_key)

\* flatten_dict(d, parent_key, sep=':'): return dict(items)
flatten_dict(d, parent_key) == dict_of(flatten_items(d, parent_key))

\* a mapping as Python compares mappings: the same keys with the same values,
\* in whatever order
AsMap(d) == {<<d[j].key, d[j].val>> : j \in 1..Len(d)}

\* flatten_dict(m) is called on an input mapping
StartFlatten(m) ==
    /\ flat.op = "none"
    /\ flat' = [op |-> "once", m |-> m, out |-> flatten_dict(m, <<>>)]
    /\ UNCHANGED <<strs, counter, hashes, pc, mode, cur, contact, tels, parents, k, ret,
                   title, pattern, seq, pre, touched, together, written, issued, obs, fmt,
                   moved, lastcall, ix, items, nxt, follow, iters, hpc, hlog, db>>

\* flatten_dict is called on its own result (Redis.pipe on a flattened record)
FlattenAgain ==
    /\ flat.op = "once"
    /\ flat' = [op |-> "twice", m |-> flat.m, out |-> flat.out,
                again |-> flatten_dict(flat.out, <<>>)]
    /\ UNCHANGED <<strs, counter, hashes, pc, mode, cur, contact, tels, parents, k, ret,
                   title, pattern, seq, pre, touched, together, written, issued, obs, fmt,
                   moved, lastcall, ix, items, nxt, follow, iters, hpc, hlog, db>>

NextFlat ==
    \/ flat.op = "none" /\ \E m \in Mappings : StartFlatten(m)
    \/ FlattenAgain

SpecFlat == Init /\ [][NextFlat]_vars

\* a mapping without a mapping or a list among its values
IsFlat(d) == \A j \in 1..Len(d) : ~IsNested(d[j].val)

\* C15: the result of flatten_dict has distinct keys and no mapping or list as
\* a value; flattening the result again gives an equal mapping; and a mapping
\* that is already flat is returned unchanged
C15_FlattenIdempotent ==
    /\ flat.op \in {"once", "twice"} =>
           /\ IsFlat(flat.out)
           /\ \A i, j \in 1..Len(flat.out) : i # j => flat.out[i].key # flat.out[j].key
           /\ IsFlat(flat.m) => flat.out = flat.m
    /\ flat.op = "twice" => AsMap(flat.again) = AsMap(flat.out)

\* C15 witness: a mapping with a list inside a list, whose flattening produced
\* two items, has been flattened twice
C15_Witness ==
    /\ flat.op = "twice"
    /\ \E j \in 1..Len(flat.m) :
           /\ flat.m[j].val.t = "list"
           /\ \E e \in 1..Len(flat.m[j].val.items) :
                  /\ flat.m[j].val.items[e].val.t = "list"
                  /\ Len(flat.m[j].val.items[e].val.items) = 2
    /\ Len(flat.out) = 2
    /\ flat.again = flat.out

----------------------------------------------------------------------------
(* C16: the Link field *)

\* how many times x is among the values of a list
Count(list, x) == Cardinality({j \in 1..Len(list) : list[j] = x})

\* C16 as stated: the formatted value of PublishLink is the ';'-join of all
\* matched values, each as many times as it was matched
C16_LinkKeepsAll ==
    (fmt.op = "format" /\ fmt.field = "PublishLink") =>
        /\ fmt.out.kind = "return"
        /\ fmt.out.val.sep = ";"
        /\ \A x \in RawStrings : Count(fmt.out.val.words, x) = Count(fmt.raw, x)

\* what holds instead: the ';'-join of the distinct matched values, each once
C16_LinkDistinct ==
    (fmt.op = "format" /\ fmt.field = "PublishLink") =>
        /\ fmt.out.kind = "return"
        /\ fmt.out.val.sep = ";"
        /\ \A x \in RawStrings :
               Count(fmt.out.val.words, x) = IF Count(fmt.raw, x) > 0 THEN 1 ELSE 0

----------------------------------------------------------------------------
(* C17..C19: what a merge does to the other phones and to earlier merges *)

\* the calls on lists of non-empty phones, with the store at the start of
\* every call recorded
SpecGroup == InitId /\ [][NextMerge]_vars

\* C17 as stated: when a call has re-parented a phone X of its list from its
\* old parent P onto the returned identity C, every other phone whose pointer
\* had the parent P before the call has the parent C after it
C17_GroupReparented ==
    \A w \in Workers :
        (Returned(w) /\ "" \notin PhonesOf(w) /\ AtMostOnePointer(pre[w])) =>
            \A X \in PhonesOf(w) : \A keyX \in PointersIn(pre[w], X) :
                keyX[3] # ret[w] =>
                    \A Y \in AllPhones \ {X} : \A keyY \in PointersIn(pre[w], Y) :
                        keyY[3] = keyX[3] => PointersIn(strs, Y) = {<<"root", "Ids", ret[w], Y>>}

\* C18 as stated: while the zip loop of a call runs, the pointer found for a
\* non-last phone that already has the canonical parent is in the store: it
\* is neither deleted nor set again
C18_NoRedundantUpdate ==
    \A w \in Workers :
        (mode[w] = "tel_id" /\ pc[w] \in {"delete", "set"}) =>
            \A i \in 1..Len(parents[w]) :
                parents[w][i][3] = ret[w] => parents[w][i] \in DOMAIN strs

\* the identity resolution with the parents every phone was moved away from recorded
InitHist == InitStore /\ obs = {"moved"}

SpecHist == InitHist /\ [][NextMerge]_vars

\* C19 as stated: a phone that a call has re-parented away from a parent P onto
\* a different parent never has a pointer with the parent P again
C19_NoReversal ==
    \A pair \in moved : <<"root", "Ids", pair[2], pair[1]>> \notin DOMAIN strs

----------------------------------------------------------------------------
(* C21: the shape of the pointer graph between the calls of one worker *)

\* the phones that have a pointer in the store
Known == {t \in AllPhones : PointersIn(strs, t) # {}}

\* no call of the worker is in the middle of its lookups or of its zip loop
BetweenCalls == pc[1] \in {"idle", "done"}

\* C21 as stated: between the calls of one worker every parent segment is a
\* phone with a pointer of its own, following the parent pointers from any
\* known phone reaches a self-parented phone (no cycle other than the
\* self-pointers), and the identity a call returns is a self-parented phone
C21_NoCycle ==
    BetweenCalls =>
        /\ \A t \in Known : ParentOf(t) \in Known /\ Ends(t)
        /\ (Returned(1) /\ FirstIsSet(tels[1])) => ParentOf(ret[1]) = ret[1]

\* the part of C21 that holds: every parent segment is a phone with a pointer
\* of its own, and the returned identity is such a phone
C21_ParentsKnown ==
    BetweenCalls =>
        /\ \A t \in Known : ParentOf(t) \in Known
        /\ (Returned(1) /\ FirstIsSet(tels[1])) => ret[1] \in Known

----------------------------------------------------------------------------
(* C22: the same call twice in a row *)

\* the assignments of a parent to some of the phones
PointerMaps == UNION {[S -> Tel] : S \in SUBSET Tel}

\* the store holding the pointers of such an assignment
StoreOf(p) == [key \in {<<"root", "Ids", p[t], t>> : t \in DOMAIN p} |-> key[4]]

\* the stores in which every phone has at most one pointer
PointerStores == {StoreOf(p) : p \in PointerMaps}

\* the calls of one worker on any such store, the last finished call recorded
InitTwice == strs \in PointerStores /\ InitRest /\ obs = {"lastcall"}

SpecTwice == InitTwice /\ [][NextMerge]_vars

\* the running call has the argument of the call that finished just before it
SecondCall == lastcall # NoCall /\ lastcall.tel = contact[1]

\* C22: when a call with the argument of the call just before it returns, it
\* returns the identity the first call returned and the store holds the
\* pointers the first call left
C22_Idempotent ==
    (Returned(1) /\ SecondCall) =>
        /\ ret[1] = lastcall.result
        /\ strs = lastcall.strs

\* a second call on a list of several phones has returned, on a store in
\* which the first phone of the list is merged into another phone
C22_Witness ==
    /\ Returned(1)
    /\ SecondCall
    /\ Len(tels[1]) >= 2
    /\ \E key \in DOMAIN strs : key[4] = tels[1][1] /\ key[3] # key[4]

----------------------------------------------------------------------------
(* C23: what the identity resolution does to the records and the counters *)

\* cursors of default pushes whose domain is not 'Ids': 'Ids' is the category
\* of some of them, and every one has a partition
FrameCursors == [root : Roots, domain : Domains, category : {"Ids", "c1"}, partition : {"p1"}]

\* the pushes and the bare identity resolutions of one worker on one store
NextFrame ==
    \/ \E self \in FrameCursors : StartPushDefault(1, self, <<>>, "t1")
    \/ \E c \in RaceContacts : StartPushUser(1, DefaultCursor, c, "t1")
    \/ \E c \in RaceContacts : CallTelId(1, c)
    \/ TelIdStep(1)
    \/ Incr(1)
    \/ Hset(1)

SpecFrame == Init /\ [][NextFrame]_vars

\* the step leaves the record hash or the sequence counter of this key in
\* place: the hash with its content, the counter not lower than it was
Kept(key) ==
    /\ key \in DOMAIN hashes => (key \in DOMAIN hashes' /\ hashes'[key] = hashes[key])
    /\ key \in DOMAIN counter => (key \in DOMAIN counter' /\ counter'[key] >= counter[key])

\* the key is in the namespace the glob of get_tel_parent reads: root:Ids:...
InIds(key) == Len(key) >= 2 /\ key[1] = "root" /\ key[2] = "Ids"

\* C23 as stated: the cursors of all pushes have a domain other than 'Ids',
\* and no step changes or deletes a record hash or a counter of an earlier push
C23_RecordsKept ==
    [][\A key \in DOMAIN hashes \cup DOMAIN counter : Kept(key)]_vars

\* C23, amended: no step changes or deletes a record hash or a counter whose
\* key is outside root:Ids:..., that is, one pushed by a cursor whose first
\* non-empty folder (domain, category, partition) is not 'Ids'
C23_RecordsOutsideIdsKept ==
    [][\A key \in DOMAIN hashes \cup DOMAIN counter : ~InIds(key) => Kept(key)]_vars

\* a record was pushed under root:Users:<X>:... and phone X has been
\* re-parented onto another identity since
C23_Witness ==
    \E key \in DOMAIN hashes :
        /\ key[2] = "Users"
        /\ \E ptr \in PointersIn(strs, key[3]) : ptr[3] # key[3]

====
